---- MODULE Spec2Model ----
(***************************************************************************)
(* A model of virus.py: Employee / Corporation / Simulation.               *)
(*                                                                         *)
(* Simulation.__init__ is followed statement by statement.  It is cut into *)
(* steps at the places where the program reads the random generator        *)
(* (random.random on line 92, random.randrange on line 98) and at the loop *)
(* heads, so that every draw is an input of one step.                      *)
(***************************************************************************)
EXTENDS Integers, Sequences, FiniteSets

VARIABLES
    pc,              \* position in the program text
    size,            \* Simulation.size / Corporation.size
    days,            \* Simulation.days
    sim_count,       \* Simulation.sim_count
    sim_index,       \* loop variable of line 119
    day,             \* loop variable of line 124
    employee_map,    \* Corporation.employee_map: id -> virus_receive_count
    simulation_day,  \* Corporation.simulation_day
    corps,           \* number of Corporation objects constructed so far
    gen_pos,         \* position of the spreader_employees generator of line 88
    id,              \* loop variable of line 88
    email,           \* number of iterations of line 90 begun for this id
    target_id,       \* local of tick, lines 96-98
    redraws,         \* rejected draws of the while loop of line 97, counted
                     \* up to MaxRedraws
    run_data,        \* Simulation.run_data
    data,            \* Simulation.data
    report,          \* the four *_average lists, lines 130-146
    rng_pos,         \* draws taken from the generator since random.seed
    rng_log,         \* the generator's output since random.seed, as observed
    recording,       \* whether the output of the generator is being observed
    run_kind,        \* "first" | "same_process" | "new_process"
    first_report,    \* the report of the first Simulation of a comparison
    tick_start,      \* employee_map as it was when the running tick began
    sent,            \* id -> emails attempted by id in the running tick
    printed          \* the lines printed by lines 205-216

vars == << pc, size, days, sim_count, sim_index, day, employee_map,
           simulation_day, corps, gen_pos, id, email, target_id, redraws,
           run_data, data, report, rng_pos, rng_log, recording, run_kind,
           first_report, tick_start, sent, printed >>

----------------------------------------------------------------------------
(* Bounds of the model *)

\* largest population constructed
MaxSize == 3
\* largest number of days asked for
MaxDays == 3
\* largest number of trials asked for
MaxSims == 2
\* largest size * days * sim_count constructed
MaxWork == 9
\* most rejected draws counted in one run of the while loop of line 97 (the
\* loop may go round more often; redraws then stays at this value)
MaxRedraws == 1
\* most draws of one process while the generator is observed
MaxObservedDraws == 10

(* Program constants *)

EmailsPerDay == 3

Sizes == 0 .. MaxSize
Days == -1 .. MaxDays
SimCounts == 0 .. MaxSims
Configs ==
    {c \in Sizes \X Days \X SimCounts : c[1] * c[2] * c[3] <= MaxWork}

----------------------------------------------------------------------------
(* Exact fractions: the values of Python's "/" before rounding *)

RECURSIVE Gcd(_, _)
Gcd(a, b) == IF b = 0 THEN a ELSE Gcd(b, a % b)

Frac(n, d) == LET g == Gcd(n, d) IN [num |-> n \div g, den |-> d \div g]

FracZero == [num |-> 0, den |-> 1]

FracAdd(x, y) == Frac(x.num * y.den + y.num * x.den, x.den * y.den)

\* "/ self.sim_count" left out of lines 143-146
FracDivIntDropped(x, k) == x

FracDivInt(x, k) == Frac(x.num, x.den * k)

----------------------------------------------------------------------------
(* Corporation *)

Ids(n) == 0 .. (n - 1)

\* a population kept from one trial to the next
NewCorporationKept(n) ==
    IF corps = 0
        THEN [number \in Ids(n) |-> IF number = 0 THEN 1 ELSE 0]
        ELSE employee_map

NewCorporation(n) == [number \in Ids(n) |-> IF number = 0 THEN 1 ELSE 0]

Count(u, s, i, e) ==
    [uninfected |-> u, spreader |-> s, immune |-> i, ever_infected |-> e]

\* the immune branch decided as immune_employees decides it (line 81)
get_counts_Above2(map) ==
    LET ids == DOMAIN map
        uninfected_count == Cardinality({m \in ids : map[m] = 0})
        spreader_count == Cardinality({m \in ids : map[m] = 1})
        immune_count == Cardinality({m \in ids : map[m] > 2})
    IN  Count(uninfected_count, spreader_count, immune_count,
              spreader_count + immune_count)

\* line 57 left out
get_counts_SpreaderOnly(map) ==
    LET ids == DOMAIN map
        uninfected_count == Cardinality({m \in ids : map[m] = 0})
        spreader_count == Cardinality({m \in ids : map[m] = 1})
        immune_count == Cardinality({m \in ids : map[m] \notin {0, 1}})
    IN  Count(uninfected_count, spreader_count, immune_count, spreader_count)

get_counts(map) ==
    LET ids == DOMAIN map
        uninfected_count == Cardinality({m \in ids : map[m] = 0})
        spreader_count == Cardinality({m \in ids : map[m] = 1})
        immune_count == Cardinality({m \in ids : map[m] \notin {0, 1}})
        ever_infected_count ==
            Cardinality({m \in ids : map[m] = 1})
            + Cardinality({m \in ids : map[m] \notin {0, 1}})
    IN  Count(uninfected_count, spreader_count, immune_count,
              ever_infected_count)

uninfected_employees(map) == {m \in DOMAIN map : map[m] = 1}

spreader_employees(map) == {m \in DOMAIN map : map[m] = 1}

immune_employees(map) == {m \in DOMAIN map : map[m] > 2}

(* The generator of line 88 is lazy: each time the for loop asks for the   *)
(* next item it walks on from where it stopped and tests the condition of  *)
(* line 73 against the counts as they are at that moment.                  *)
\* a generator that starts again at every request
GenRestFromStart(map, pos) == spreader_employees(map)

GenRest(map, pos) == {m \in spreader_employees(map) : m >= pos}

GenNext(map, pos) ==
    CHOOSE m \in GenRest(map, pos) : \A o \in GenRest(map, pos) : m <= o

\* the email counted for its sender
InfectSender(map, t) == [map EXCEPT ![id] = @ + 1]

\* a count that stops at 2
InfectSaturating(map, t) == [map EXCEPT ![t] = IF @ >= 2 THEN @ ELSE @ + 1]

Infect(map, t) == [map EXCEPT ![t] = @ + 1]

----------------------------------------------------------------------------
(* The random generator.  Its output after random.seed(40351) is a fixed   *)
(* sequence the model does not know, so a draw may return any value of its *)
(* range.  When the generator is being observed (recording), the values it *)
(* returns are kept with their positions: a draw at a position not yet     *)
(* observed may return any value, a draw at an observed position returns   *)
(* the value observed there.  A value is kept with the function that drew  *)
(* it: << "random", "clean" >> for random.random() > 0.4, << "random",      *)
(* "infected" >> otherwise, << "randrange", t >> for random.randrange.      *)

Draw(v) ==
    IF recording
        THEN /\ rng_pos < MaxObservedDraws
             /\ rng_pos < Len(rng_log) => v = rng_log[rng_pos + 1]
             /\ rng_log' = IF rng_pos < Len(rng_log)
                             THEN rng_log
                             ELSE Append(rng_log, v)
             /\ rng_pos' = rng_pos + 1
        ELSE UNCHANGED << rng_pos, rng_log >>

----------------------------------------------------------------------------
NoMap == << >>

Init ==
    /\ pc = "main"
    /\ size = 0 /\ days = 0 /\ sim_count = 0
    /\ sim_index = 0 /\ day = 0
    /\ employee_map = NoMap
    /\ simulation_day = 0
    /\ corps = 0
    /\ gen_pos = 0 /\ id = 0 /\ email = 0 /\ target_id = 0 /\ redraws = 0
    /\ run_data = << >>
    /\ data = << >>
    /\ report = << >>
    /\ rng_pos = 0
    /\ rng_log = << >>
    /\ recording = FALSE
    /\ run_kind = "first"
    /\ first_report = << >>
    /\ tick_start = NoMap
    /\ sent = NoMap
    /\ printed = << >>

----------------------------------------------------------------------------
(* convert_to_percentage_lists and the averaging of lines 129-146 *)

convert_to_percentage_lists(d) ==
    LET total_count == d[1].uninfected + d[1].spreader + d[1].immune
    IN  [uninfected |-> [k \in DOMAIN d |-> Frac(d[k].uninfected, total_count)],
         spreader |-> [k \in DOMAIN d |-> Frac(d[k].spreader, total_count)],
         immune |-> [k \in DOMAIN d |-> Frac(d[k].immune, total_count)],
         ever_infected |->
             [k \in DOMAIN d |-> Frac(d[k].ever_infected, total_count)]]

AddRun(avg, run, n, len) ==
    LET pct == convert_to_percentage_lists(run)
    IN  [uninfected_average |->
             [index \in 1 .. len |->
                 FracAdd(avg.uninfected_average[index],
                         FracDivInt(pct.uninfected[index], n))],
         spreader_average |->
             [index \in 1 .. len |->
                 FracAdd(avg.spreader_average[index],
                         FracDivInt(pct.spreader[index], n))],
         immune_average |->
             [index \in 1 .. len |->
                 FracAdd(avg.immune_average[index],
                         FracDivInt(pct.immune[index], n))],
         ever_infected_average |->
             [index \in 1 .. len |->
                 FracAdd(avg.ever_infected_average[index],
                         FracDivInt(pct.ever_infected[index], n))]]

RECURSIVE AverageFrom(_, _, _, _, _)
AverageFrom(avg, runs, k, n, len) ==
    IF k > Len(runs)
        THEN avg
        ELSE AverageFrom(AddRun(avg, runs[k], n, len), runs, k + 1, n, len)

Zeros(len) == [index \in 1 .. len |-> FracZero]

Average(runs, n, d) ==
    AverageFrom([uninfected_average |-> Zeros(d + 1),
                 spreader_average |-> Zeros(d + 1),
                 immune_average |-> Zeros(d + 1),
                 ever_infected_average |-> Zeros(d + 1)],
                runs, 1, n, d + 1)

----------------------------------------------------------------------------
(* Simulation.__init__ *)

rngvars == << rng_pos, rng_log >>
cmpvars == << recording, run_kind, first_report, printed >>
cfgvars == << size, days, sim_count >>
tickvars == << gen_pos, id, email, target_id, redraws, tick_start, sent >>

\* lines 115-118
Construct(s, d, n) ==
    /\ pc = "main"
    /\ << s, d, n >> \in Configs
    /\ size' = s /\ days' = d /\ sim_count' = n
    /\ data' = << >>
    /\ sim_index' = 0
    /\ pc' = "for_sim"
    /\ UNCHANGED << day, employee_map, simulation_day, corps, run_data,
                    report, rngvars, cmpvars, tickvars >>

\* lines 119-123, with Corporation.__init__ (lines 32-42)
StartTrial ==
    /\ pc = "for_sim"
    /\ sim_index < sim_count
    /\ 0 \in Ids(size)
    /\ employee_map' = NewCorporation(size)
    /\ simulation_day' = 0
    /\ corps' = corps + 1
    /\ run_data' = << get_counts(employee_map') >>
    /\ day' = 0
    /\ pc' = "for_day"
    /\ UNCHANGED << cfgvars, sim_index, data, report, rngvars, cmpvars,
                    tickvars >>

\* lines 119-122 when employee_map has no key 0: line 42 raises KeyError
\* inside Corporation.__init__, so self.corp is never assigned
CorporationKeyError ==
    /\ pc = "for_sim"
    /\ sim_index < sim_count
    /\ 0 \notin Ids(size)
    /\ run_data' = << >>
    /\ pc' = "KeyError"
    /\ UNCHANGED << cfgvars, sim_index, day, employee_map, simulation_day,
                    corps, data, report, rngvars, cmpvars, tickvars >>

\* line 119 exhausted, then lines 129-146
AverageData ==
    /\ pc = "for_sim"
    /\ sim_index >= sim_count
    /\ report' = Average(data, sim_count, days)
    /\ pc' = "done"
    /\ UNCHANGED << cfgvars, sim_index, day, employee_map, simulation_day,
                    corps, run_data, data, rngvars, cmpvars, tickvars >>

\* range(days + 1) on line 124
StartTickInclusive ==
    /\ pc = "for_day"
    /\ day <= days
    /\ gen_pos' = 0
    /\ tick_start' = employee_map
    /\ sent' = [m \in DOMAIN employee_map |-> 0]
    /\ pc' = "for_spreader"
    /\ UNCHANGED << cfgvars, sim_index, day, employee_map, simulation_day,
                    corps, run_data, data, report, rngvars, cmpvars, id,
                    email, target_id, redraws >>

\* line 124 yields a day, line 125 calls tick, line 88 creates the generator
StartTick ==
    /\ pc = "for_day"
    /\ day < days
    /\ gen_pos' = 0
    /\ tick_start' = employee_map
    /\ sent' = [m \in DOMAIN employee_map |-> 0]
    /\ pc' = "for_spreader"
    /\ UNCHANGED << cfgvars, sim_index, day, employee_map, simulation_day,
                    corps, run_data, data, report, rngvars, cmpvars, id,
                    email, target_id, redraws >>

\* line 124 exhausted, line 127, back to line 119
EndTrial ==
    /\ pc = "for_day"
    /\ day >= days
    /\ data' = Append(data, run_data)
    /\ sim_index' = sim_index + 1
    /\ pc' = "for_sim"
    /\ UNCHANGED << cfgvars, day, employee_map, simulation_day, corps,
                    run_data, report, rngvars, cmpvars, tickvars >>

----------------------------------------------------------------------------
(* Corporation.tick *)

\* range(4) on line 90
AfterEmailOneMore(k) ==
    IF k <= EmailsPerDay THEN "for_email" ELSE "for_spreader"

\* where control goes when the body of line 90 has run for the k-th time
AfterEmail(k) == IF k < EmailsPerDay THEN "for_email" ELSE "for_spreader"

\* line 88: the generator yields the next spreader
NextSpreader ==
    /\ pc = "for_spreader"
    /\ GenRest(employee_map, gen_pos) # {}
    /\ id' = GenNext(employee_map, gen_pos)
    /\ gen_pos' = id' + 1
    /\ email' = 0
    /\ pc' = "for_email"
    /\ UNCHANGED << cfgvars, sim_index, day, employee_map, simulation_day,
                    corps, run_data, data, report, rngvars, cmpvars,
                    target_id, redraws, tick_start, sent >>

\* line 88 exhausted, line 105
TickEnd ==
    /\ pc = "for_spreader"
    /\ GenRest(employee_map, gen_pos) = {}
    /\ simulation_day' = simulation_day + 1
    /\ gen_pos' = 0 /\ id' = 0 /\ email' = 0 /\ target_id' = 0
    /\ pc' = "tick_return"
    /\ UNCHANGED << cfgvars, sim_index, day, employee_map, corps, run_data,
                    data, report, rngvars, cmpvars, redraws, tick_start,
                    sent >>

\* line 126, back to line 124
RecordDay ==
    /\ pc = "tick_return"
    /\ run_data' = Append(run_data, get_counts(employee_map))
    /\ day' = day + 1
    /\ tick_start' = NoMap
    /\ sent' = NoMap
    /\ pc' = "for_day"
    /\ UNCHANGED << cfgvars, sim_index, employee_map, simulation_day, corps,
                    data, report, rngvars, cmpvars, gen_pos, id, email,
                    target_id, redraws >>

\* lines 90-93: random.random() > 0.4, the email is not infected
CleanEmail ==
    /\ pc = "for_email"
    /\ Draw(<< "random", "clean" >>)
    /\ email' = email + 1
    /\ sent' = [sent EXCEPT ![id] = @ + 1]
    /\ pc' = AfterEmail(email')
    /\ UNCHANGED << cfgvars, sim_index, day, employee_map, simulation_day,
                    corps, run_data, data, report, cmpvars, gen_pos, id,
                    target_id, redraws, tick_start >>

\* lines 90-96: random.random() <= 0.4, the email is infected
InfectedEmail ==
    /\ pc = "for_email"
    /\ Draw(<< "random", "infected" >>)
    /\ email' = email + 1
    /\ sent' = [sent EXCEPT ![id] = @ + 1]
    /\ target_id' = id
    /\ redraws' = 0
    /\ pc' = "while_target"
    /\ UNCHANGED << cfgvars, sim_index, day, employee_map, simulation_day,
                    corps, run_data, data, report, cmpvars, gen_pos, id,
                    tick_start >>

\* lines 97-98: randrange returns the sender, the loop goes round again
RejectTarget ==
    /\ pc = "while_target"
    /\ id \in Ids(size)
    /\ Draw(<< "randrange", id >>)
    /\ target_id' = id
    /\ redraws' = IF redraws < MaxRedraws THEN redraws + 1 ELSE redraws
    /\ UNCHANGED << pc, cfgvars, sim_index, day, employee_map,
                    simulation_day, corps, run_data, data, report, cmpvars,
                    gen_pos, id, email, tick_start, sent >>

\* lines 96-102 without the while loop of line 97
SendEmailAny(t) ==
    /\ pc = "while_target"
    /\ t \in Ids(size)
    /\ Draw(<< "randrange", t >>)
    /\ target_id' = t
    /\ employee_map' = Infect(employee_map, t)
    /\ redraws' = 0
    /\ pc' = AfterEmail(email)
    /\ UNCHANGED << cfgvars, sim_index, day, simulation_day, corps, run_data,
                    data, report, cmpvars, gen_pos, id, email, tick_start,
                    sent >>

\* lines 97-102: randrange returns somebody else, who receives the email
SendEmail(t) ==
    /\ pc = "while_target"
    /\ t \in Ids(size)
    /\ t # id
    /\ Draw(<< "randrange", t >>)
    /\ target_id' = t
    /\ employee_map' = Infect(employee_map, t)
    /\ redraws' = 0
    /\ pc' = AfterEmail(email)
    /\ UNCHANGED << cfgvars, sim_index, day, simulation_day, corps, run_data,
                    data, report, cmpvars, gen_pos, id, email, tick_start,
                    sent >>

----------------------------------------------------------------------------
(* __main__, lines 186-216: what is done with a constructed Simulation *)

simvars == << sim_index, day, employee_map, simulation_day, corps, run_data,
              data, report >>

FracGeq(x, y) == x.num * y.den >= y.num * x.den

\* 0.10 and 0.50 of lines 211 and 214
TenPercent == Frac(1, 10)
FiftyPercent == Frac(1, 2)

\* the days after which line 205 asks for the fraction: the list of line 205
\* is an input here, and one of its elements is followed
AfterDays == 0 .. MaxDays

\* lines 186-203: line 191 reads sim.run_data, the record of the last trial
Plot ==
    /\ pc = "done"
    /\ sim_count >= 1
    /\ pc' = "line_205"
    /\ UNCHANGED << cfgvars, simvars, rngvars, cmpvars, tickvars >>

\* line 191 when no trial has run: run_data was never assigned
PlotAttributeError ==
    /\ pc = "done"
    /\ sim_count < 1
    /\ pc' = "AttributeError"
    /\ UNCHANGED << cfgvars, simvars, rngvars, cmpvars, tickvars >>

\* the element of the list read by line 206 for n: Python's index n + 1
FractionAfter(avg, n) == avg[(n + 1) + 1]

\* lines 205-206
PrintFraction(n) ==
    /\ pc = "line_205"
    /\ n + 1 < Len(report.ever_infected_average)
    /\ printed' = Append(printed,
                         [line |-> "fraction", n |-> n,
                          value |-> FractionAfter(report.ever_infected_average,
                                                  n)])
    /\ pc' = "line_208"
    /\ UNCHANGED << cfgvars, simvars, rngvars, recording, run_kind,
                    first_report, tickvars >>

\* line 206 when the list has no element n + 1
FractionIndexError(n) ==
    /\ pc = "line_205"
    /\ n + 1 >= Len(report.ever_infected_average)
    /\ pc' = "IndexError"
    /\ UNCHANGED << cfgvars, simvars, rngvars, cmpvars, tickvars >>

\* lines 210-216 with a flag that is never set
RECURSIVE ThresholdLinesEveryDay(_, _, _, _)
ThresholdLinesEveryDay(avg, k, found_10_percent, found_50_percent) ==
    IF k > Len(avg)
        THEN << >>
        ELSE LET hit10 == ~found_10_percent /\ FracGeq(avg[k], TenPercent)
                 hit50 == ~found_50_percent /\ FracGeq(avg[k], FiftyPercent)
             IN  (IF hit10
                      THEN << [line |-> "10%", day |-> k - 1] >>
                      ELSE << >>)
                 \o (IF hit50
                         THEN << [line |-> "50%", day |-> k - 1] >>
                         ELSE << >>)
                 \o ThresholdLinesEveryDay(avg, k + 1, found_10_percent,
                                           found_50_percent)

\* lines 208-216: the loop of line 210 from the element k on (day k - 1)
RECURSIVE ThresholdLines(_, _, _, _)
ThresholdLines(avg, k, found_10_percent, found_50_percent) ==
    IF k > Len(avg)
        THEN << >>
        ELSE LET hit10 == ~found_10_percent /\ FracGeq(avg[k], TenPercent)
                 hit50 == ~found_50_percent /\ FracGeq(avg[k], FiftyPercent)
             IN  (IF hit10
                      THEN << [line |-> "10%", day |-> k - 1] >>
                      ELSE << >>)
                 \o (IF hit50
                         THEN << [line |-> "50%", day |-> k - 1] >>
                         ELSE << >>)
                 \o ThresholdLines(avg, k + 1, found_10_percent \/ hit10,
                                   found_50_percent \/ hit50)

\* lines 208-216
PrintThresholds ==
    /\ pc = "line_208"
    /\ printed' = printed
                    \o ThresholdLines(report.ever_infected_average, 1,
                                      FALSE, FALSE)
    /\ pc' = "exit"
    /\ UNCHANGED << cfgvars, simvars, rngvars, recording, run_kind,
                    first_report, tickvars >>

----------------------------------------------------------------------------
Next ==
    \/ \E s \in Sizes, d \in Days, n \in SimCounts : Construct(s, d, n)
    \/ StartTrial
    \/ CorporationKeyError
    \/ AverageData
    \/ StartTick
    \/ EndTrial
    \/ NextSpreader
    \/ TickEnd
    \/ RecordDay
    \/ CleanEmail
    \/ InfectedEmail
    \/ RejectTarget
    \/ \E t \in 0 .. (MaxSize - 1) : SendEmail(t)
    \/ Plot
    \/ PlotAttributeError
    \/ \E n \in AfterDays : PrintFraction(n)
    \/ \E n \in AfterDays : FractionIndexError(n)
    \/ PrintThresholds

Spec == Init /\ [][Next]_vars

(* A tick that has begun runs on: the interpreter takes the next step of   *)
(* lines 87-105.  The draws of line 98 are fair: while the loop of line 97 *)
(* runs, a value other than the sender's id is drawn at some time.         *)
SpecFair ==
    /\ Init
    /\ [][Next]_vars
    /\ WF_vars(NextSpreader \/ TickEnd \/ CleanEmail \/ InfectedEmail)
    /\ WF_vars(\E t \in 0 .. (MaxSize - 1) : SendEmail(t))

----------------------------------------------------------------------------
(* A second Simulation with the arguments of the first, to compare the     *)
(* reports of the two.                                                     *)

\* Simulation(size, days, sim_count) once more in the running process, as
\* the loop of line 181 does: lines 115-118, the generator is left as it is
SameProcess ==
    /\ pc = "done"
    /\ run_kind = "first"
    /\ first_report' = report
    /\ run_kind' = "same_process"
    /\ data' = << >>
    /\ sim_index' = 0
    /\ pc' = "for_sim"
    /\ UNCHANGED << cfgvars, day, employee_map, simulation_day, corps,
                    run_data, report, rngvars, recording, tickvars,
                    printed >>

\* the import of line 5 without its effect on the generator
NewProcessUnseeded ==
    /\ pc = "done"
    /\ run_kind = "first"
    /\ first_report' = report
    /\ run_kind' = "new_process"
    /\ day' = 0 /\ employee_map' = NoMap /\ simulation_day' = 0 /\ corps' = 0
    /\ run_data' = << >> /\ report' = << >>
    /\ data' = << >>
    /\ sim_index' = 0
    /\ pc' = "for_sim"
    /\ UNCHANGED << cfgvars, rngvars, recording, tickvars, printed >>

\* the program started again: the module is imported, line 5 seeds the
\* generator, and Simulation(size, days, sim_count) is constructed
NewProcess ==
    /\ pc = "done"
    /\ run_kind = "first"
    /\ first_report' = report
    /\ run_kind' = "new_process"
    /\ rng_pos' = 0
    /\ day' = 0 /\ employee_map' = NoMap /\ simulation_day' = 0 /\ corps' = 0
    /\ run_data' = << >> /\ report' = << >>
    /\ data' = << >>
    /\ sim_index' = 0
    /\ pc' = "for_sim"
    /\ UNCHANGED << cfgvars, rng_log, recording, tickvars, printed >>

InitObserved ==
    /\ pc = "main"
    /\ size = 0 /\ days = 0 /\ sim_count = 0
    /\ sim_index = 0 /\ day = 0
    /\ employee_map = NoMap
    /\ simulation_day = 0
    /\ corps = 0
    /\ gen_pos = 0 /\ id = 0 /\ email = 0 /\ target_id = 0 /\ redraws = 0
    /\ run_data = << >>
    /\ data = << >>
    /\ report = << >>
    /\ rng_pos = 0
    /\ rng_log = << >>
    /\ recording = TRUE
    /\ run_kind = "first"
    /\ first_report = << >>
    /\ tick_start = NoMap
    /\ sent = NoMap
    /\ printed = << >>

NextRerun ==
    \/ Next
    \/ SameProcess
    \/ NewProcess

SpecRerun == InitObserved /\ [][NextRerun]_vars

----------------------------------------------------------------------------
(* Properties *)

InTick == pc \in {"for_spreader", "for_email", "while_target", "tick_return"}

HasCorporation == corps > 0

Records == {data[r] : r \in DOMAIN data} \cup {run_data}

InvalidConfiguration == size < 2 \/ days < 0 \/ sim_count < 1

\* C1: within one tick only the members whose count was 1 when the tick
\* began send emails; a member whose count was 0 then sends none, even if
\* it is infected earlier in the same tick.
C1_OnlyStartSpreadersSend ==
    InTick => \A m \in DOMAIN sent : sent[m] > 0 => tick_start[m] = 1

\* C2: when a tick has run, every member whose count was 1 when the tick
\* began has sent exactly 3 emails, whatever happened to its count since.
C2_StartSpreadersSendThree ==
    pc = "tick_return" =>
        \A m \in DOMAIN tick_start :
            tick_start[m] = 1 => sent[m] = EmailsPerDay

CountsAddUp(c) ==
    /\ c.uninfected + c.spreader + c.immune = size
    /\ c.ever_infected = c.spreader + c.immune

\* C3: every Count that get_counts returns, now or recorded earlier, has
\* uninfected + spreader + immune = size and ever_infected = spreader +
\* immune.
C3_CountsAddUp ==
    HasCorporation =>
        /\ CountsAddUp(get_counts(employee_map))
        /\ \A rec \in Records : \A k \in DOMAIN rec : CountsAddUp(rec[k])

C3_Witness ==
    /\ pc = "for_day"
    /\ day > 0
    /\ get_counts(employee_map).uninfected > 0
    /\ get_counts(employee_map).spreader > 0
    /\ \E m \in DOMAIN employee_map : employee_map[m] = 2

\* C4: the three enumerations agree with the classes of get_counts:
\* uninfected_employees yields the members with count 0, spreader_employees
\* those with count 1, immune_employees those with count 2 or more, and
\* each yields as many members as the matching field of get_counts.
C4_EnumerationsAgree ==
    HasCorporation =>
        LET ids == DOMAIN employee_map
            c == get_counts(employee_map)
        IN  /\ uninfected_employees(employee_map)
                    = {m \in ids : employee_map[m] = 0}
            /\ spreader_employees(employee_map)
                    = {m \in ids : employee_map[m] = 1}
            /\ immune_employees(employee_map)
                    = {m \in ids : employee_map[m] >= 2}
            /\ Cardinality(uninfected_employees(employee_map)) = c.uninfected
            /\ Cardinality(spreader_employees(employee_map)) = c.spreader
            /\ Cardinality(immune_employees(employee_map)) = c.immune

\* C5: constructing a Simulation with size < 2, days < 0 or sim_count < 1
\* starts no trial: no Corporation is constructed, no snapshot is recorded,
\* no averages are produced and the construction does not complete.
C5_InvalidConfigurationRejected ==
    (pc # "main" /\ InvalidConfiguration) =>
        /\ corps = 0
        /\ run_data = << >>
        /\ data = << >>
        /\ report = << >>
        /\ pc # "done"

OneMore(old, new) ==
    \E t \in DOMAIN old : new = [old EXCEPT ![t] = old[t] + 1]

\* C6: within a trial no step lowers a member's count; a step that changes
\* the counts raises exactly one member's count by exactly 1, and every
\* email that is sent does so, however large the count already is.
C6_CountsOnlyGrow ==
    [][pc # "for_sim" =>
        /\ DOMAIN employee_map' = DOMAIN employee_map
        /\ \A m \in DOMAIN employee_map : employee_map'[m] >= employee_map[m]
        /\ employee_map' # employee_map => OneMore(employee_map, employee_map')
        /\ (pc = "while_target" /\ pc' # "while_target")
               => OneMore(employee_map, employee_map')]_vars

C6_Witness ==
    /\ pc = "for_day"
    /\ \E m \in DOMAIN employee_map : employee_map[m] >= 4

InitialCount == Count(size - 1, 1, 0, 1)

\* C7: at day 0 of every trial, the first and every later one, exactly one
\* member has count 1 and all the others 0, and the first Count recorded
\* is (size - 1, 1, 0, 1).
C7_InitialState ==
    /\ (pc = "for_day" /\ day = 0) =>
           /\ Cardinality({m \in DOMAIN employee_map : employee_map[m] = 1}) = 1
           /\ \A m \in DOMAIN employee_map : employee_map[m] \in {0, 1}
           /\ simulation_day = 0
           /\ run_data = << InitialCount >>
    /\ \A r \in DOMAIN data : data[r][1] = InitialCount

C7_Witness ==
    /\ pc = "for_day"
    /\ day = 0
    /\ sim_index = 1
    /\ data[1][Len(data[1])].immune > 0

IsPrefix(a, b) == Len(a) <= Len(b) /\ \A k \in DOMAIN a : a[k] = b[k]

\* C8: a construction with days >= 0 and sim_count >= 1 ends with exactly
\* sim_count records in data, each of days + 1 Counts; the first Count of a
\* record is that of the new population and the Count at index k is taken
\* from the same population when exactly k ticks have run; what has been
\* recorded is never changed.
C8_Records ==
    /\ [](/\ (pc = "done" /\ days >= 0 /\ sim_count >= 1) =>
               /\ Len(data) = sim_count
               /\ \A r \in DOMAIN data : Len(data[r]) = days + 1
          /\ pc \in {"for_day"} =>
               /\ Len(run_data) = simulation_day + 1
               /\ run_data[simulation_day + 1] = get_counts(employee_map)
               /\ run_data[1] = get_counts(NewCorporation(size))
          /\ InTick => Len(run_data) = day + 1
          /\ pc = "for_spreader" => simulation_day = day
          /\ pc = "tick_return" => simulation_day = day + 1)
    /\ [][/\ pc \notin {"main", "for_sim"} => IsPrefix(run_data, run_data')
          /\ pc # "main" => IsPrefix(data, data')
          /\ pc = "for_day" /\ pc' = "for_sim" => data' = Append(data, run_data)
          /\ pc # "for_sim" => corps' = corps]_vars

C8_Witness ==
    /\ pc = "done"
    /\ days = 2
    /\ sim_count = 2
    /\ data[1] # data[2]
    /\ data[1][2] # data[1][3]

\* C9 as claimed: a second Simulation with the same size, days and sim_count
\* has the report of the first, whether it is constructed in a newly
\* started program or after the first in the same process.
C9_AnyRerunAgrees ==
    (pc = "done" /\ run_kind # "first") => report = first_report

\* C9: a second Simulation with the same size, days and sim_count that is
\* constructed in a newly started program, whose generator line 5 has just
\* seeded, has the report of the first.
C9_SeededRerunAgrees ==
    (pc = "done" /\ run_kind = "new_process") => report = first_report

C9_Witness ==
    /\ pc = "done"
    /\ run_kind = "new_process"
    /\ sim_count = 2
    /\ rng_pos >= 8
    /\ data[1] # data[2]
    /\ report.spreader_average[2] # report.spreader_average[1]

NonDecreasing(rec) ==
    \A k \in DOMAIN rec :
        k + 1 \in DOMAIN rec =>
            /\ rec[k + 1].ever_infected >= rec[k].ever_infected
            /\ rec[k + 1].uninfected <= rec[k].uninfected

\* C10: in every trial record ever_infected never falls and uninfected
\* never rises from one snapshot to the next.
C10_EverInfectedGrows == \A rec \in Records : NonDecreasing(rec)

C10_Witness ==
    /\ pc = "done"
    /\ \E r \in DOMAIN data :
           /\ Len(data[r]) = 4
           /\ data[r][1].ever_infected < data[r][2].ever_infected
           /\ data[r][2].ever_infected = data[r][3].ever_infected
           /\ data[r][3].ever_infected < data[r][4].ever_infected
           /\ data[r][4].immune > 0

ReportReady ==
    pc \in {"done", "line_205", "line_208", "exit", "AttributeError",
            "IndexError"}

FracOne == [num |-> 1, den |-> 1]

\* C11: at every day index of the report, uninfected_average +
\* spreader_average + immune_average is exactly 1 and ever_infected_average
\* is exactly spreader_average + immune_average.
C11_FractionsClose ==
    ReportReady =>
        \A index \in 1 .. (days + 1) :
            /\ FracAdd(FracAdd(report.uninfected_average[index],
                               report.spreader_average[index]),
                       report.immune_average[index]) = FracOne
            /\ report.ever_infected_average[index]
                   = FracAdd(report.spreader_average[index],
                             report.immune_average[index])

RECURSIVE SumOver(_, _, _, _)
SumOver(runs, k, index, category) ==
    IF k > Len(runs)
        THEN 0
        ELSE runs[k][index][category] + SumOver(runs, k + 1, index, category)

IsAverageOf(avg, category) ==
    /\ Len(avg) = days + 1
    /\ \A index \in 1 .. Len(avg) :
           /\ avg[index].den > 0
           /\ avg[index].num * (size * sim_count)
                  = SumOver(data, 1, index, category) * avg[index].den
           /\ 0 <= avg[index].num
           /\ avg[index].num <= avg[index].den

LinesOf(name) == {k \in DOMAIN printed : printed[k].line = name}

Reached(avg, threshold) ==
    {d \in 0 .. (Len(avg) - 1) : FracGeq(avg[d + 1], threshold)}

AnswersQuery(name, threshold) ==
    LET reached == Reached(report.ever_infected_average, threshold)
    IN  IF reached = {}
            THEN LinesOf(name) = {}
            ELSE /\ Cardinality(LinesOf(name)) = 1
                 /\ \A k \in LinesOf(name) :
                        /\ printed[k].day \in reached
                        /\ \A d \in reached : printed[k].day <= d

\* C14: for each threshold, what lines 208-216 print is the smallest day
\* index whose ever_infected_average is at least the threshold, once, and
\* nothing when no entry reaches the threshold.
C14_ThresholdQuery ==
    pc = "exit" =>
        /\ AnswersQuery("10%", TenPercent)
        /\ AnswersQuery("50%", FiftyPercent)

C14_Witness ==
    /\ pc = "exit"
    /\ days = 3
    /\ \E k \in LinesOf("50%") : printed[k].day = 2
    /\ \E k \in LinesOf("10%") : printed[k].day = 0

\* C15: the value printed as the fraction infected after n days is the
\* entry of ever_infected_average at day index n.
C15_FractionAfterDays ==
    \A k \in LinesOf("fraction") :
        printed[k].value = report.ever_infected_average[printed[k].n + 1]

\* the draws of the first Simulation of a process, by the function called
CallsOf(fn) == Cardinality({k \in 1 .. rng_pos : rng_log[k][1] = fn})

DrawBound == IF days < 0 THEN 0 ELSE sim_count * days * size * EmailsPerDay

FirstRunObserved == recording /\ run_kind = "first" /\ pc # "main"

Sending == pc \in {"for_email", "while_target"}

\* C16: the email of a successful attempt goes to a member id in
\* 0 .. size - 1 other than the sender, and no step of a member's attempts
\* changes that member's own count.
C16_TargetIsAnother ==
    [][/\ (pc = "while_target" /\ pc' # "while_target") =>
              /\ target_id' \in Ids(size)
              /\ target_id' # id
              /\ employee_map'
                     = [employee_map EXCEPT ![target_id'] = @ + 1]
       /\ Sending => employee_map'[id] = employee_map[id]]_vars

C16_Witness ==
    /\ pc = "for_email"
    /\ id = 1
    /\ target_id = 0
    /\ employee_map[0] = 2
    /\ employee_map[1] = 1

TickRunning == pc \in {"for_spreader", "for_email", "while_target"}

\* C17: with size >= 2 and fair draws a tick that has begun ends; the
\* generator yields each member at most once in a tick; and
\* simulation_day changes only when the tick ends, by exactly 1.
C17_TickTerminates ==
    /\ (size >= 2 /\ TickRunning) ~> (pc = "tick_return")
    /\ [][/\ (pc = "for_spreader" /\ pc' = "for_email") =>
                 /\ sent[id'] = 0
                 /\ \A m \in DOMAIN sent : sent[m] > 0 => m < id'
          /\ (pc # "for_sim" /\ simulation_day' # simulation_day) =>
                 /\ pc = "for_spreader"
                 /\ pc' = "tick_return"
                 /\ simulation_day' = simulation_day + 1
          /\ (TickRunning /\ pc' = "tick_return") =>
                 simulation_day' = simulation_day + 1]_vars

C17_Witness ==
    /\ pc = "tick_return"
    /\ size = 3
    /\ simulation_day = 2
    /\ \A m \in DOMAIN sent : sent[m] = EmailsPerDay
    /\ \E m \in DOMAIN employee_map : employee_map[m] >= 3

\* C18: a Simulation with size 1 is constructed and run; once an attempt of
\* its only member succeeds, the loop of line 97 is never left; a tick of
\* it that ends has made 3 attempts, none of which succeeded.
C18_SoleMemberStuck ==
    /\ [](size = 1 => pc # "KeyError")
    /\ [][(size = 1 /\ pc = "while_target") =>
               (pc' = "while_target" /\ employee_map' = employee_map)]_vars
    /\ []((size = 1 /\ pc = "tick_return") =>
              /\ sent[0] = EmailsPerDay
              /\ employee_map = tick_start)

C18_Witness ==
    /\ size = 1
    /\ pc = "while_target"
    /\ email = 2
    /\ redraws >= 1

\* no member is contagious
Extinct(map) == spreader_employees(map) = {}

\* C19 speaks of a tick that starts with no member whose count is 1.  No
\* tick of the program starts so: member 0 starts with count 1, and the
\* member the generator yields last in a tick still has count 1 when the
\* tick ends, because only members yielded after it could send to it.
AlwaysASpreaderAtTickStart ==
    /\ pc = "for_day" => ~Extinct(employee_map)
    /\ InTick => ~Extinct(tick_start)
    /\ pc = "tick_return" => ~Extinct(employee_map)

====
